---- MODULE Spec2Model ----
(***************************************************************************)
(* Model of administration/static/js/new-course/directives.js: the three   *)
(* directives `file`, `localImage` and `professorslist`.                   *)
(*                                                                         *)
(* Strings that the code inspects character by character (attribute names, *)
(* class attributes) are tuples of one-character strings.  Every handler   *)
(* records what it did in fx, the effects of the most recent handler run.  *)
(***************************************************************************)
EXTENDS Integers, Sequences, FiniteSets, TLC

VARIABLES
    decl,        \* file: attributes declared on the <file> element (DOM name -> value)
    declClass,   \* file: the class attribute declared on the <file> element
    elemClass,   \* file: current value of the custom element's class attribute
    filePc,      \* file: "compiled" (before link), "linked", "failed" (link threw)
    input,       \* file: the native input created by link
    fileModel,   \* file: the external value bound through ngModel
    ctrl,        \* file: the ngModel argument of link, which onchange closes over
    imgAttr,     \* localImage: the element's ng-model attribute
    imgPc,       \* localImage: "compiled" (before link) or "linked"
    watching,    \* localImage: TRUE once link has registered the $watch
    lastSeen,    \* localImage: the value the watcher last passed to its listener
    imgModel,    \* localImage: the scope value that ng-model names
    display,     \* localImage: img.style.display
    src,         \* localImage: img.src
    reader,      \* localImage: the FileReader created by link
    onSelect,          \* professorslist: the value bound to on-select
    professors,        \* professorslist: $scope.professors, [items, resolved]
    selectedProfessor, \* professorslist: $scope.selectedProfessor
    dir,               \* professorslist: the instance's directory request
    instances,         \* professorslist: widget instances created so far
    queries,           \* professorslist: directory requests issued so far
    fx           \* effects of the most recent handler run: [op, eff]

fileVars == <<decl, declClass, elemClass, filePc, input, fileModel, ctrl>>
imageVars == <<imgAttr, imgPc, watching, lastSeen, imgModel, display, src, reader>>
pickerVars == <<onSelect, professors, selectedProfessor, dir, instances, queries>>
vars == <<fileVars, imageVars, pickerVars, fx>>

(***************************************************************************)
(* Bounds                                                                  *)
(***************************************************************************)
MaxClassLen == 4     \* longest class attribute declared on the custom element
MaxAttrs == 2        \* most attributes (besides class) declared on the element
MaxFiles == 2        \* most files carried by one change event
MaxProfessors == 2   \* longest list the directory returns
MaxInstances == 2    \* most professorslist instances created in one run

(***************************************************************************)
(* JavaScript values                                                       *)
(***************************************************************************)
Undefined == "undefined"
Null == "null"
\* undefined where the code expects a character string (a missing attribute)
undefinedAttr == <<"undefined">>
NoFx == [op |-> "none", eff |-> <<>>]

Throw(err) == [e |-> "throw", err |-> err]

(***************************************************************************)
(* Characters                                                              *)
(***************************************************************************)
LowerAlpha ==
    <<"a","b","c","d","e","f","g","h","i","j","k","l","m",
      "n","o","p","q","r","s","t","u","v","w","x","y","z">>
UpperAlpha ==
    <<"A","B","C","D","E","F","G","H","I","J","K","L","M",
      "N","O","P","Q","R","S","T","U","V","W","X","Y","Z">>

IndexIn(c, t) == CHOOSE i \in 1..Len(t) : t[i] = c
IsLower(c) == \E i \in 1..26 : LowerAlpha[i] = c
IsUpper(c) == \E i \in 1..26 : UpperAlpha[i] = c
toUpperCase(c) == IF IsLower(c) THEN UpperAlpha[IndexIn(c, LowerAlpha)] ELSE c
toLowerCase(c) == IF IsUpper(c) THEN LowerAlpha[IndexIn(c, UpperAlpha)] ELSE c
lowercase(s) == [i \in 1..Len(s) |-> toLowerCase(s[i])]

\* \w of a JavaScript regular expression, over the characters used here
IsWordChar(c) == IsLower(c) \/ IsUpper(c) \/ c = "_"

StartsWith(s, p) == Len(s) >= Len(p) /\ SubSeq(s, 1, Len(p)) = p
Drop(s, n) == SubSeq(s, n + 1, Len(s))

\* String.prototype.trim
RECURSIVE TrimLeft(_)
TrimLeft(s) == IF s # <<>> /\ s[1] = " " THEN TrimLeft(Tail(s)) ELSE s
RECURSIVE TrimRight(_)
TrimRight(s) ==
    IF s # <<>> /\ s[Len(s)] = " " THEN TrimRight(SubSeq(s, 1, Len(s) - 1)) ELSE s
trim(s) == TrimRight(TrimLeft(s))

\* the class names of a class attribute: its maximal runs of non-space characters
RECURSIVE SkipNonSpace(_, _)
SkipNonSpace(s, i) == IF i <= Len(s) /\ s[i] # " " THEN SkipNonSpace(s, i + 1) ELSE i
RECURSIVE SkipSpace(_, _)
SkipSpace(s, i) == IF i <= Len(s) /\ s[i] = " " THEN SkipSpace(s, i + 1) ELSE i
RECURSIVE ClassesFrom(_, _)
ClassesFrom(s, i) ==
    IF i > Len(s) THEN {}
    ELSE IF s[i] = " " THEN ClassesFrom(s, i + 1)
    ELSE {SubSeq(s, i, SkipNonSpace(s, i) - 1)} \cup ClassesFrom(s, SkipNonSpace(s, i))
ClassList(s) == IF s = undefinedAttr THEN {} ELSE ClassesFrom(s, 1)

(***************************************************************************)
(* Attribute names                                                         *)
(***************************************************************************)
N_class == <<"c","l","a","s","s">>
N_type == <<"t","y","p","e">>
N_accept == <<"a","c","c","e","p","t">>
N_ariaLabel == <<"a","r","i","a","-","l","a","b","e","l">>
N_dataAccept == <<"d","a","t","a","-","a","c","c","e","p","t">>
N_ngModel == <<"n","g","-","m","o","d","e","l">>
N_dataNgModel == <<"d","a","t","a","-","n","g","-","m","o","d","e","l">>
K_ngModel == <<"n","g","M","o","d","e","l">>
K_attr == <<"$","a","t","t","r">>
K_element == <<"$","$","e","l","e","m","e","n","t">>

AttrPool == {N_accept, N_ariaLabel, N_dataAccept, N_ngModel, N_dataNgModel}
\* each declared attribute carries a value that tells it from the others
AttrValue(n) == <<"v", ":">> \o n
ClassAlphabet == {"n", "g", "-", " "}
ClassStrings == UNION {[1..k -> ClassAlphabet] : k \in 0..MaxClassLen}

\* angular directiveNormalize: strip an x- or data- prefix, then camelCase
StripPrefix(s) ==
    IF StartsWith(s, <<"x","-">>) THEN Drop(s, 2)
    ELSE IF StartsWith(s, <<"d","a","t","a","-">>) THEN Drop(s, 5)
    ELSE s
RECURSIVE SkipSep(_, _)
SkipSep(s, i) == IF i <= Len(s) /\ s[i] \in {"-", ":", "_"} THEN SkipSep(s, i + 1) ELSE i
RECURSIVE CamelFrom(_, _)
CamelFrom(s, i) ==
    IF i > Len(s) THEN <<>>
    ELSE IF s[i] \in {"-", ":", "_"} /\ SkipSep(s, i) <= Len(s)
         THEN <<IF i > 1 THEN toUpperCase(s[SkipSep(s, i)]) ELSE s[SkipSep(s, i)]>>
              \o CamelFrom(s, SkipSep(s, i) + 1)
         ELSE <<s[i]>> \o CamelFrom(s, i + 1)
camelCase(s) == CamelFrom(s, 1)
directiveNormalize(name) == camelCase(StripPrefix(name))

(***************************************************************************)
(* file directive                                                          *)
(***************************************************************************)
S_file == <<"f","i","l","e">>
S_ngPristine == <<"n","g","-","p","r","i","s","t","i","n","e">>
S_ngValid == <<"n","g","-","v","a","l","i","d">>

Files == {"F1", "F2"}
FileLists == UNION {[1..k -> Files] : k \in 0..MaxFiles}
\* evt.target.files: a FileList, or undefined on a platform without the File API
EventFiles == FileLists \cup {<<Undefined>>}

\* jqLite addClass: append the class unless the attribute already lists it
addClass(cur, c) ==
    LET existing == IF cur = undefinedAttr THEN <<>> ELSE cur
    IN  IF c \in ClassList(existing) THEN trim(existing)
        ELSE trim(existing \o <<" ">> \o c)

\* the keys of the attrs object that link receives: the normalized names of
\* the element's attributes, and the object's own bookkeeping properties
AttrsKeys(d, cls) ==
    {directiveNormalize(lowercase(n)) :
        n \in DOMAIN d \cup (IF cls = undefinedAttr THEN {} ELSE {N_class})}
    \cup {K_attr, K_element}

\* require: '?ngModel' -- the controller of an ngModel directive on the same
\* element, or null
ngModel(d) == IF K_ngModel \in AttrsKeys(d, undefinedAttr) THEN "NgModelController" ELSE Null

\* the class attribute when link runs: NgModelController has already added
\* its state classes to the element
ClassAtLink(d, cls) ==
    IF ngModel(d) # Null THEN addClass(addClass(cls, S_ngPristine), S_ngValid) ELSE cls

\* element.attr(name): getAttribute, which matches names case-insensitively
ElementAttr(d, cls, name) ==
    LET n == lowercase(name)
    IN  IF n = N_class THEN cls
        ELSE IF n \in DOMAIN d THEN d[n]
        ELSE undefinedAttr

\* /^ng/.test(att)
TestNg(att) == StartsWith(att, <<"n","g">>)

\* s.replace(/\bng[^ ]+ */g, '')
WordBoundary(s, i) ==
    (i > 1 /\ IsWordChar(s[i - 1])) # (i <= Len(s) /\ IsWordChar(s[i]))
MatchNgAt(s, i) ==
    /\ WordBoundary(s, i)
    /\ i + 2 <= Len(s)
    /\ s[i] = "n" /\ s[i + 1] = "g"
    /\ s[i + 2] # " "
RECURSIVE ReplaceNgFrom(_, _)
ReplaceNgFrom(s, i) ==
    IF i > Len(s) THEN <<>>
    ELSE IF MatchNgAt(s, i) THEN ReplaceNgFrom(s, SkipSpace(s, SkipNonSpace(s, i + 2)))
    ELSE <<s[i]>> \o ReplaceNgFrom(s, i + 1)
ReplaceNg(s) == ReplaceNgFrom(s, 1)

\* lines 19-23: the properties the attribute loop sets on the input
CopiedKeys(d, cls) == {k \in AttrsKeys(d, cls) : ~TestNg(k)}
InputProps(d, cls) ==
    [k \in CopiedKeys(d, cls) \cup {N_type} |->
        IF k \in CopiedKeys(d, cls) THEN ElementAttr(d, cls, k) ELSE S_file]

NoInput == [props |-> <<>>, className |-> <<>>, appended |-> FALSE]

FileInit ==
    /\ decl \in {[n \in S |-> AttrValue(n)] :
                    S \in {T \in SUBSET AttrPool : Cardinality(T) <= MaxAttrs}}
    /\ declClass \in ClassStrings \cup {undefinedAttr}
    /\ elemClass = ClassAtLink(decl, declClass)
    /\ filePc = "compiled"
    /\ input = NoInput
    /\ fileModel = Undefined
    /\ ctrl = ngModel(decl)

\* lines 9-28: link.  element.attr('class') is undefined when the element has
\* no class attribute, and .replace then throws before the input is appended
FileLink ==
    /\ filePc = "compiled"
    /\ IF elemClass = undefinedAttr
       THEN /\ input' = [props |-> InputProps(decl, elemClass),
                         className |-> <<>>, appended |-> FALSE]
            /\ filePc' = "failed"
            /\ fx' = [op |-> "file.link", eff |-> <<Throw("TypeError")>>]
            /\ UNCHANGED elemClass
       ELSE /\ input' = [props |-> InputProps(decl, elemClass),
                         className |-> trim(ReplaceNg(elemClass)), appended |-> TRUE]
            /\ elemClass' = <<>>
            /\ filePc' = "linked"
            /\ fx' = [op |-> "file.link", eff |-> <<>>]
    /\ UNCHANGED <<decl, declClass, fileModel, ctrl, imageVars, pickerVars>>

\* evt.target.files[0]
First(files) == IF Len(files) = 0 THEN Undefined ELSE files[1]
\* if(evt.target.files): every object is truthy, an empty FileList included
FilesTruthy(files) == files # <<Undefined>>

\* a handler that refreshes the view before it updates the value
onchange_ApplyFirst(files) ==
    /\ filePc = "linked"
    /\ input.appended
    /\ IF FilesTruthy(files)
       THEN IF ctrl = Null
            THEN /\ fx' = [op |-> "onchange", eff |-> <<Throw("TypeError")>>]
                 /\ UNCHANGED fileModel
            ELSE /\ fileModel' = First(files)
                 /\ fx' = [op |-> "onchange",
                           eff |-> <<[e |-> "$apply"],
                                     [e |-> "$setViewValue", v |-> First(files)]>>]
       ELSE /\ fx' = [op |-> "onchange", eff |-> <<[e |-> "$apply"]>>]
            /\ UNCHANGED fileModel
    /\ UNCHANGED <<decl, declClass, elemClass, filePc, input, ctrl, imageVars, pickerVars>>
\* lines 12-17: input.onchange
onchange(files) ==
    /\ filePc = "linked"
    /\ input.appended
    /\ IF FilesTruthy(files)
       THEN IF ctrl = Null
            THEN /\ fx' = [op |-> "onchange", eff |-> <<Throw("TypeError")>>]
                 /\ UNCHANGED fileModel
            ELSE /\ fileModel' = First(files)
                 /\ fx' = [op |-> "onchange",
                           eff |-> <<[e |-> "$setViewValue", v |-> First(files)],
                                     [e |-> "$apply"]>>]
       ELSE /\ fx' = [op |-> "onchange", eff |-> <<[e |-> "$apply"]>>]
            /\ UNCHANGED fileModel
    /\ UNCHANGED <<decl, declClass, elemClass, filePc, input, ctrl, imageVars, pickerVars>>

(***************************************************************************)
(* localImage directive                                                    *)
(***************************************************************************)
\* the values the host can bind; F1 and F3 are different files with the
\* same type and content
FileValues == {"F1", "F2", "F3"}
ModelValues ==
    {"undefined", "null", "emptyString", "zero", "text", "object", "blob"} \cup FileValues
initWatchVal == "initWatchVal"

Truthy(v) == v \notin {"undefined", "null", "emptyString", "zero"}
Constructor(v) ==
    CASE v \in FileValues -> "File"
      [] v = "blob" -> "Blob"
      [] v = "object" -> "Object"
      [] v \in {"text", "emptyString"} -> "String"
      [] v = "zero" -> "Number"
      [] OTHER -> Undefined
FileType(f) == IF f = "F2" THEN "image/gif" ELSE "image/png"
FileContent(f) == IF f = "F2" THEN <<71, 73, 70>> ELSE <<137, 80>>

\* base64 digits are kept as numbers 0..63, padding as "="
RECURSIVE Base64(_)
Base64(b) ==
    IF Len(b) = 0 THEN <<>>
    ELSE IF Len(b) = 1
         THEN <<b[1] \div 4, (b[1] % 4) * 16, "=", "=">>
    ELSE IF Len(b) = 2
         THEN <<b[1] \div 4, (b[1] % 4) * 16 + b[2] \div 16, (b[2] % 16) * 4, "=">>
    ELSE <<b[1] \div 4, (b[1] % 4) * 16 + b[2] \div 16,
           (b[2] % 16) * 4 + b[3] \div 64, b[3] % 64>> \o Base64(Drop(b, 3))
\* the result of readAsDataURL
DataURL(f) == <<"data:", FileType(f), ";base64,">> \o Base64(FileContent(f))

windowFile == TRUE
\* a check that accepts every Blob, not only File
IsFileCheck_AnyBlob(d) == windowFile /\ Truthy(d) /\ Constructor(d) \in {"File", "Blob"}
\* line 45: window.File && d && d.constructor === window.File
IsFileCheck(d) == windowFile /\ Truthy(d) /\ Constructor(d) = "File"

NewReader == [readyState |-> "EMPTY", file |-> Undefined, error |-> FALSE]
\* a reader that drops the read in flight and starts the new one
readAsDataURL_Restart(r, d) ==
    [reader |-> [readyState |-> "LOADING", file |-> d, error |-> FALSE],
     eff |-> <<[e |-> "readAsDataURL", v |-> d]>>]
\* FileReader.readAsDataURL: throws InvalidStateError while a read is loading
readAsDataURL(r, d) ==
    IF r.readyState = "LOADING"
    THEN [reader |-> r, eff |-> <<Throw("InvalidStateError")>>]
    ELSE [reader |-> [readyState |-> "LOADING", file |-> d, error |-> FALSE],
          eff |-> <<[e |-> "readAsDataURL", v |-> d]>>]

ImgAttrs == {undefinedAttr, <<>>, <<"f">>}
InitialSrc == {<<>>, <<"placeholder.png">>}
InitialDisplay == {"", "block"}

ImageInit ==
    /\ imgAttr \in ImgAttrs
    /\ imgPc = "compiled"
    /\ watching = FALSE
    /\ lastSeen = initWatchVal
    /\ imgModel \in {"undefined", "F1"}
    /\ display \in InitialDisplay
    /\ src \in InitialSrc
    /\ reader = NewReader

\* a link that registers the watch whether or not ng-model is there
ImageLink_AlwaysWatch ==
    /\ imgPc = "compiled"
    /\ imgPc' = "linked"
    /\ reader' = NewReader
    /\ watching' = TRUE
    /\ fx' = [op |-> "localImage.link", eff |-> <<>>]
    /\ UNCHANGED <<imgAttr, lastSeen, imgModel, display, src, fileVars, pickerVars>>
\* lines 35-53: link
ImageLink ==
    /\ imgPc = "compiled"
    /\ imgPc' = "linked"
    /\ reader' = NewReader
    /\ watching' = (imgAttr # undefinedAttr /\ imgAttr # <<>>)
    /\ fx' = [op |-> "localImage.link", eff |-> <<>>]
    /\ UNCHANGED <<imgAttr, lastSeen, imgModel, display, src, fileVars, pickerVars>>

\* the host application assigns the bound value
HostSet(v) ==
    /\ imgPc = "linked"
    /\ v # imgModel
    /\ imgModel' = v
    /\ UNCHANGED <<imgAttr, imgPc, watching, lastSeen, display, src, reader, fileVars, pickerVars, fx>>

\* lines 44-51: a digest finds the watched value changed and runs the listener
WatchListener ==
    /\ watching
    /\ imgModel # lastSeen
    /\ lastSeen' = imgModel
    /\ IF IsFileCheck(imgModel)
       THEN /\ display' = ""
            /\ reader' = readAsDataURL(reader, imgModel).reader
            /\ fx' = [op |-> "$watch", eff |-> readAsDataURL(reader, imgModel).eff]
       ELSE /\ display' = "none"
            /\ fx' = [op |-> "$watch", eff |-> <<>>]
            /\ UNCHANGED reader
    /\ UNCHANGED <<imgAttr, imgPc, watching, imgModel, src, fileVars, pickerVars>>

\* an onload that also shows the image
ReaderLoad_Show ==
    /\ reader.readyState = "LOADING"
    /\ reader' = [reader EXCEPT !.readyState = "DONE"]
    /\ src' = DataURL(reader.file)
    /\ display' = ""
    /\ fx' = [op |-> "onload", eff |-> <<[e |-> "src", v |-> reader.file]>>]
    /\ UNCHANGED <<imgAttr, imgPc, watching, lastSeen, imgModel, fileVars, pickerVars>>
\* lines 39-41: the read succeeds and reader.onload assigns the result
ReaderLoad ==
    /\ reader.readyState = "LOADING"
    /\ reader' = [reader EXCEPT !.readyState = "DONE"]
    /\ src' = DataURL(reader.file)
    /\ fx' = [op |-> "onload", eff |-> <<[e |-> "src", v |-> reader.file]>>]
    /\ UNCHANGED <<imgAttr, imgPc, watching, lastSeen, imgModel, display, fileVars, pickerVars>>

\* a reader whose failure clears the image source
ReaderError_ClearSrc ==
    /\ reader.readyState = "LOADING"
    /\ reader' = [reader EXCEPT !.readyState = "DONE", !.error = TRUE]
    /\ src' = <<>>
    /\ fx' = [op |-> "error", eff |-> <<>>]
    /\ UNCHANGED <<imgAttr, imgPc, watching, lastSeen, imgModel, display, fileVars, pickerVars>>
\* the read fails: the reader has no error handler
ReaderError ==
    /\ reader.readyState = "LOADING"
    /\ reader' = [reader EXCEPT !.readyState = "DONE", !.error = TRUE]
    /\ fx' = [op |-> "error", eff |-> <<>>]
    /\ UNCHANGED <<imgAttr, imgPc, watching, lastSeen, imgModel, display, src, fileVars, pickerVars>>

(***************************************************************************)
(* professorslist directive                                                *)
(***************************************************************************)
Professors == {"P1", "P2", "P3"}
ProfessorRecord(p) ==
    CASE p = "P1" -> [id |-> 1, name |-> "A"]
      [] p = "P2" -> [id |-> 2, name |-> "B"]
      [] p = "P3" -> [id |-> 3, name |-> "C"]
\* the lists the directory can return: no record twice
Directory ==
    {l \in UNION {[1..k -> Professors] : k \in 0..MaxProfessors} :
        \A i, j \in 1..Len(l) : l[i] = l[j] => i = j}

\* values the host can bind to on-select
OnSelectValues == {"undefined", "function", "objectWithCall", "object", "text"}
\* $scope.onSelect.call is truthy
HasCall(f) == f \in {"function", "objectWithCall"}
\* f(...) does not throw TypeError
Callable(f) == f = "function"

NoProfessors == [items |-> <<>>, resolved |-> FALSE]

PickerInit ==
    /\ onSelect \in OnSelectValues
    /\ professors = NoProfessors
    /\ selectedProfessor = Null
    /\ dir = "pending"
    /\ instances = 1
    /\ queries = 1

\* lines 65-67: the controller of a new instance
controller(cb) ==
    /\ instances < MaxInstances
    /\ instances' = instances + 1
    /\ onSelect' = cb
    /\ professors' = NoProfessors
    /\ queries' = queries + 1
    /\ dir' = "pending"
    /\ selectedProfessor' = Null
    /\ fx' = [op |-> "controller", eff |-> <<[e |-> "Professor.query"]>>]
    /\ UNCHANGED <<fileVars, imageVars>>

\* Professor.query(): the array it returned is filled when the response arrives
QueryResolve(list) ==
    /\ dir = "pending"
    /\ dir' = "resolved"
    /\ professors' = [items |-> list, resolved |-> TRUE]
    /\ UNCHANGED <<onSelect, selectedProfessor, instances, queries, fileVars, imageVars, fx>>

\* a failure that issues the request again
QueryFail_Retry ==
    /\ dir = "pending"
    /\ dir' = "failed"
    /\ queries' = queries + 1
    /\ UNCHANGED <<onSelect, professors, selectedProfessor, instances,
                   fileVars, imageVars, fx>>
\* the request fails: the array stays as it is
QueryFail ==
    /\ dir = "pending"
    /\ dir' = "failed"
    /\ UNCHANGED <<onSelect, professors, selectedProfessor, instances, queries,
                   fileVars, imageVars, fx>>

\* the template binds the selection control to selectedProfessor
Select(p) ==
    /\ \E i \in 1..Len(professors.items) : professors.items[i] = p
    /\ selectedProfessor' = p
    /\ UNCHANGED <<onSelect, professors, dir, instances, queries, fileVars, imageVars, fx>>

\* selectProfessor without its early return
SelectProfessorEffects_NoReturn(sel, cb) ==
    IF Truthy(cb) /\ HasCall(cb)
    THEN IF Callable(cb)
         THEN <<[e |-> "call", f |-> "onSelect", args |-> <<sel>>]>>
         ELSE <<Throw("TypeError")>>
    ELSE <<>>
\* lines 70-74: what selectProfessor does with the selection sel and callback cb
SelectProfessorEffects(sel, cb) ==
    IF ~Truthy(sel) THEN <<>>
    ELSE IF Truthy(cb) /\ HasCall(cb)
         THEN IF Callable(cb)
              THEN <<[e |-> "call", f |-> "onSelect", args |-> <<sel>>]>>
              ELSE <<Throw("TypeError")>>
         ELSE <<>>

\* a confirmation that reloads the list
selectProfessor_Reload ==
    /\ fx' = [op |-> "selectProfessor",
              eff |-> SelectProfessorEffects(selectedProfessor, onSelect)]
    /\ professors' = NoProfessors
    /\ dir' = "pending"
    /\ queries' = queries + 1
    /\ UNCHANGED <<onSelect, selectedProfessor, instances, fileVars, imageVars>>
\* a confirmation that clears the selection
selectProfessor_Reset ==
    /\ fx' = [op |-> "selectProfessor",
              eff |-> SelectProfessorEffects(selectedProfessor, onSelect)]
    /\ selectedProfessor' = Null
    /\ UNCHANGED <<onSelect, professors, dir, instances, queries, fileVars, imageVars>>
\* lines 69-75: $scope.selectProfessor
selectProfessor ==
    /\ fx' = [op |-> "selectProfessor",
              eff |-> SelectProfessorEffects(selectedProfessor, onSelect)]
    /\ UNCHANGED <<pickerVars, fileVars, imageVars>>

PickerIdle ==
    /\ onSelect = "undefined" /\ professors = NoProfessors /\ selectedProfessor = Null
    /\ dir = "none" /\ instances = 0 /\ queries = 0

\* a widget that is on no page: nothing of it ever runs
FileIdle ==
    /\ decl = <<>> /\ declClass = undefinedAttr /\ elemClass = undefinedAttr
    /\ filePc = "absent" /\ input = NoInput /\ fileModel = Undefined /\ ctrl = Null
ImageIdle ==
    /\ imgAttr = undefinedAttr /\ imgPc = "absent" /\ watching = FALSE
    /\ lastSeen = initWatchVal /\ imgModel = "undefined"
    /\ display = "" /\ src = <<>> /\ reader = NewReader

InitFile == FileInit /\ ImageIdle /\ PickerIdle /\ fx = NoFx
InitImage == ImageInit /\ FileIdle /\ PickerIdle /\ fx = NoFx
InitPicker == PickerInit /\ FileIdle /\ ImageIdle /\ fx = NoFx

NextImage ==
    \/ ImageLink
    \/ \E v \in ModelValues : HostSet(v)
    \/ WatchListener
    \/ ReaderLoad
    \/ ReaderError

SpecImage == InitImage /\ [][NextImage]_vars

NextPicker ==
    \/ \E cb \in OnSelectValues : controller(cb)
    \/ \E list \in Directory : QueryResolve(list)
    \/ QueryFail
    \/ \E p \in Professors : Select(p)
    \/ selectProfessor

SpecPicker == InitPicker /\ [][NextPicker]_vars

NextFile ==
    \/ FileLink
    \/ \E files \in EventFiles : onchange(files)

SpecFile == InitFile /\ [][NextFile]_vars

\* the platform completes every read it has started, with success or failure
SpecImageFair == SpecImage /\ WF_vars(ReaderLoad \/ ReaderError)

(***************************************************************************)
(* Properties                                                              *)
(***************************************************************************)
\* C1: for every change event of the native input of a file widget with a
\* bound model, the bound value becomes the first chosen file when at least
\* one file was chosen, and keeps its previous value when the event carries
\* a file list with zero files.
C1_FirstFileOrUnchanged ==
    [][\A files \in FileLists :
        (ctrl # Null /\ onchange(files)) =>
            fileModel' = (IF Len(files) >= 1 THEN files[1] ELSE fileModel)]_vars

\* C2: a confirmation made while no record is selected invokes nothing; a
\* confirmation made after record R was selected invokes the on-select
\* callback (a function) exactly once, with R as its sole argument.
C2_ConfirmCallsOnce ==
    [][selectProfessor =>
        IF selectedProfessor = Null
        THEN fx'.eff = <<>>
        ELSE Callable(onSelect) =>
                fx'.eff = <<[e |-> "call", f |-> "onSelect",
                             args |-> <<selectedProfessor>>]>>]_vars

C2_Witness ==
    /\ fx.op = "selectProfessor"
    /\ professors.items = <<"P1", "P2">>
    /\ selectedProfessor = "P2"
    /\ ProfessorRecord(selectedProfessor) = [id |-> 2, name |-> "B"]
    /\ fx.eff = <<[e |-> "call", f |-> "onSelect", args |-> <<"P2">>]>>

\* C3: whenever the value last notified to the image preview is a file F,
\* the image is visible, and once the reader has finished reading without
\* failure the image source is the data URL of F.
C3_VisibleAndSourceOfBoundFile ==
    /\ lastSeen \in FileValues => display = ""
    /\ (lastSeen \in FileValues /\ reader.readyState = "DONE" /\ ~reader.error)
            => src = DataURL(lastSeen)

\* C4: a change notification whose value is not a file hides the image in
\* the same step and starts no read.
C4_NonFileHidesAndReadsNothing ==
    [][(lastSeen' # lastSeen /\ lastSeen' \notin FileValues) =>
            (display' = "none" /\ reader' = reader)]_vars

C4_Witness ==
    /\ fx.op = "$watch"
    /\ lastSeen = "blob"
    /\ display = "none"
    /\ reader.readyState = "LOADING"

\* C5: a read in flight is never cancelled or replaced: every step leaves it
\* in flight for the same file or completes it, a successful completion
\* assigns the data URL of that file to the image source whatever the bound
\* value is by then, and the completion does come.
C5_ReadNotCancelled ==
    /\ [][reader.readyState = "LOADING" =>
            \/ reader' = reader
            \/ /\ reader'.readyState = "DONE"
               /\ reader'.file = reader.file
               /\ reader'.error \/ src' = DataURL(reader.file)]_vars
    /\ (reader.readyState = "LOADING") ~> (reader.readyState = "DONE")

C5_Witness ==
    /\ fx.op = "onload"
    /\ lastSeen \in FileValues
    /\ imgModel = lastSeen
    /\ lastSeen # reader.file
    /\ src = DataURL(reader.file)
    /\ src # DataURL(lastSeen)

\* C6: a confirmation made with a record selected while the on-select value
\* is absent or not invocable makes no call and raises no error.
C6_NonInvocableSkipped ==
    (fx.op = "selectProfessor" /\ ~Callable(onSelect)) => fx.eff = <<>>

\* C7: every instance issues exactly one directory request, at construction;
\* it leaves Loading only when the list arrives, to Ready-Unselected,
\* whatever the size of the list, and no later step of the instance puts it
\* back in Loading.
C7_LoadsOnce ==
    /\ [](queries = instances)
    /\ [][/\ (professors.resolved /\ instances' = instances) => professors'.resolved
          /\ (~professors.resolved /\ professors'.resolved) =>
                /\ dir = "pending" /\ dir' = "resolved"
                /\ selectedProfessor' = Null
                /\ queries' = queries]_vars

C7_Witness ==
    /\ instances = 2
    /\ professors.resolved
    /\ professors.items = <<>>
    /\ fx.op = "selectProfessor"

\* C8: a confirmation leaves the selected record and the professor list
\* unchanged and issues no directory request; a selection is cleared only
\* by the creation of a new instance.
C8_ConfirmChangesNothing ==
    [][/\ selectProfessor =>
            UNCHANGED <<selectedProfessor, professors, dir, queries, instances>>
       /\ (selectedProfessor # Null /\ selectedProfessor' = Null) =>
            instances' = instances + 1]_vars

C8_Witness ==
    /\ fx.op = "selectProfessor"
    /\ selectedProfessor = "P1"
    /\ professors.items = <<"P2", "P1">>
    /\ fx.eff # <<>>

\* C9: after link, every declared attribute whose name does not begin with
\* ng is on the native input under the same name with the same value, and
\* no declared attribute whose name begins with ng is.  A name counts as
\* beginning with ng also behind an x- or data- prefix, as the framework
\* reads it, so the statement fails on no attribute of the framework.
C9_AttributesCopied ==
    filePc = "linked" =>
        \A n \in DOMAIN decl :
            IF TestNg(directiveNormalize(lowercase(n)))
            THEN n \notin DOMAIN input.props
            ELSE n \in DOMAIN input.props /\ input.props[n] = decl[n]

\* C10: link completes for every declared class attribute, an absent one
\* included; after it every class declared on the custom element is a class
\* of the native input, and the custom element has no class left.  Classes
\* that begin with ng, which the code strips on purpose, are left out of the
\* statement.
C10_ClassesMoved ==
    filePc \in {"linked", "failed"} =>
        /\ filePc = "linked"
        /\ {c \in ClassList(declClass) : ~TestNg(c)} \subseteq ClassList(input.className)
        /\ ClassList(elemClass) = {}

\* C11: a local-image element without an ng-model attribute registers no
\* watch, and no step ever changes its display or source or starts a read.
C11_NoBindingTouchesNothing ==
    /\ [](imgAttr = undefinedAttr => (~watching /\ reader.readyState = "EMPTY"))
    /\ [][imgAttr = undefinedAttr => UNCHANGED <<display, src>>]_vars

C11_Witness ==
    /\ imgAttr = undefinedAttr
    /\ imgPc = "linked"
    /\ imgModel = "F2"
    /\ display = "block"
    /\ src = <<"placeholder.png">>

\* C12: a read that fails assigns no source: the step leaves the image source
\* and the image's display as they were, so a visible image stays visible.
C12_FailedReadAssignsNothing ==
    [][(reader.readyState = "LOADING" /\ reader'.readyState = "DONE" /\ reader'.error)
            => (src' = src /\ display' = display)]_vars

C12_Witness ==
    /\ fx.op = "error"
    /\ reader.error
    /\ lastSeen = "F2"
    /\ display = ""
    /\ src = DataURL("F1")

\* C13: after the directory request of an instance has failed, the instance
\* keeps an empty unresolved list and no selection, issues no further
\* request, and a confirmation calls nothing and raises nothing.
C13_FailedRequestStaysLoading ==
    /\ [](dir = "failed" =>
            /\ professors = NoProfessors
            /\ selectedProfessor = Null
            /\ queries = instances)
    /\ [][(dir = "failed" /\ instances' = instances) =>
            /\ dir' = "failed"
            /\ queries' = queries
            /\ selectProfessor => fx'.eff = <<>>]_vars

C13_Witness ==
    /\ dir = "failed"
    /\ fx.op = "selectProfessor"
    /\ onSelect = "function"
    /\ instances = 2

\* C14: with a bound model, every change event runs $apply exactly once, as
\* its last effect: after the $setViewValue of the event when there is one,
\* and also when the event updates nothing.
C14_OneApplyAfterUpdate ==
    (fx.op = "onchange" /\ ctrl # Null) =>
        /\ fx.eff # <<>>
        /\ fx.eff[Len(fx.eff)].e = "$apply"
        /\ \A i \in 1..(Len(fx.eff) - 1) : fx.eff[i].e = "$setViewValue"
        /\ Len(fx.eff) <= 2

C14_Witness ==
    /\ fx.op = "onchange"
    /\ ctrl # Null
    /\ fx.eff = <<[e |-> "$setViewValue", v |-> "F2"], [e |-> "$apply"]>>
    /\ fileModel = "F2"

\* C15: once the watcher has run, the image is visible exactly when the value
\* it last observed is a file, and a step that is not a change notification
\* (a read completion among them) leaves the display as it is.
C15_VisibilityFollowsLastValue ==
    /\ [](lastSeen # initWatchVal => (display = "" <=> lastSeen \in FileValues))
    /\ [](lastSeen # initWatchVal => display \in {"", "none"})
    /\ [][lastSeen' = lastSeen => display' = display]_vars

C15_Witness ==
    /\ fx.op = "onload"
    /\ lastSeen = "null"
    /\ display = "none"
    /\ src = DataURL("F2")

\* C16: in a file widget without ng-model, a change event raises no error,
\* attempts no value update and runs $apply.
C16_UnboundChangeHandled ==
    (fx.op = "onchange" /\ ctrl = Null) => fx.eff = <<[e |-> "$apply"]>>

====
